---- MODULE Spec2Model ----
(***************************************************************************)
(* Model of the clevis reader / linker core (src/src/readers).             *)
(*                                                                         *)
(* Text is a sequence of one-character strings.  Every character of the    *)
(* modelled files is ASCII, so Rust's byte offsets (str::len, str slicing) *)
(* coincide with character positions.                                      *)
(*                                                                         *)
(* An outcome of read()/check() is one of                                  *)
(*   [tag |-> "Ok",  val  |-> v]            Ok(v)                          *)
(*   [tag |-> "Err", kind |-> k, info |-> r] Err(AppError::k {r})           *)
(*   [tag |-> "Panic", msg |-> m]           the call unwinds with a panic  *)
(***************************************************************************)
EXTENDS Integers, Sequences, FiniteSets, TLC

VARIABLES
  files,    \* the file system: path -> [readable, text]
  linker,   \* the Linker under test: [a, b], each an Accessor
  pc,       \* position of the running Linker::check call
  ra,       \* outcome of self.a.read() inside check
  rb,       \* outcome of self.b.read() inside check
  result,   \* outcome of Linker::check
  outA,     \* outcome of a direct linker.a.read() call
  outB,     \* outcome of a direct linker.b.read() call
  reads,    \* log of the fs::read_to_string calls made so far
  calls,    \* the completed repeated calls: [op, fs, out], oldest first
  worker,   \* a second Linker::check running on another thread:
            \* [linker, pc, ra, rb, result]
  config    \* the configuration: [value, loaded, key, got], the parsed
            \* config file, the outcome of Config::load and the last
            \* get_linker key with its outcome

vars == <<files, linker, pc, ra, rb, result, outA, outB, reads, calls,
          worker, config>>

(***************************************************************************)
(* Bounds of the explored input space.                                     *)
(***************************************************************************)
MaxLine == 5
MaxCol == 7
MaxIndex == 5
MaxSegs == 2
MaxQuery == 3
MaxPort == 12
MaxCalls == 3

(***************************************************************************)
(* Outcomes.                                                               *)
(***************************************************************************)
Ok(v) == [tag |-> "Ok", val |-> v]
Err(k, r) == [tag |-> "Err", kind |-> k, info |-> r]
Panic(m) == [tag |-> "Panic", msg |-> m]
None == [tag |-> "None"]

(***************************************************************************)
(* std string operations used by the readers.                              *)
(***************************************************************************)
\* str::find(char): 0-based position of the first occurrence, -1 for None.
Find(s, c) ==
  IF \E i \in 1..Len(s) : s[i] = c
  THEN (CHOOSE i \in 1..Len(s) : s[i] = c /\ \A j \in 1..(i - 1) : s[j] # c) - 1
  ELSE -1

\* str::split(char): every piece, empty ones included; never empty itself.
RECURSIVE Split(_, _)
Split(s, c) ==
  LET p == Find(s, c)
  IN IF p = -1 THEN <<s>>
     ELSE <<SubSeq(s, 1, p)>> \o Split(SubSeq(s, p + 2, Len(s)), c)

\* str::lines(): split at "\n", a final empty piece is no line, and a "\r"
\* is stripped only where a "\n" followed it.
Lines(content) ==
  LET pieces == Split(content, "\n")
      n == Len(pieces)
      strip(i) == IF i < n /\ Len(pieces[i]) > 0 /\ pieces[i][Len(pieces[i])] = "\r"
                  THEN SubSeq(pieces[i], 1, Len(pieces[i]) - 1)
                  ELSE pieces[i]
      count == IF pieces[n] = <<>> THEN n - 1 ELSE n
  IN [i \in 1..count |-> strip(i)]

\* str::contains(&str): literal contiguous substring.
Contains_nonempty(content, q) ==
  \E i \in 1..Len(content) :
     /\ i + Len(q) - 1 <= Len(content)
     /\ SubSeq(content, i, i + Len(q) - 1) = q

Contains(content, q) ==
  \E i \in 1..(Len(content) + 1) :
     /\ i + Len(q) - 1 <= Len(content)
     /\ SubSeq(content, i, i + Len(q) - 1) = q

(***************************************************************************)
(* Number formatting and parsing (i64::to_string, usize::from_str).        *)
(***************************************************************************)
Digits == <<"0", "1", "2", "3", "4", "5", "6", "7", "8", "9">>

RECURSIVE NatToString(_)
NatToString(n) ==
  IF n < 10 THEN <<Digits[n + 1]>>
  ELSE NatToString(n \div 10) \o <<Digits[(n % 10) + 1]>>

IntToString(i) == IF i < 0 THEN <<"-">> \o NatToString(-i) ELSE NatToString(i)

BoolToString(b) == IF b THEN <<"t", "r", "u", "e">> ELSE <<"f", "a", "l", "s", "e">>

IsDigit(c) == \E d \in 1..10 : Digits[d] = c

DigitVal(c) == (CHOOSE d \in 1..10 : Digits[d] = c) - 1

RECURSIVE DigitsVal(_)
DigitsVal(s) ==
  IF Len(s) = 0 THEN 0
  ELSE 10 * DigitsVal(SubSeq(s, 1, Len(s) - 1)) + DigitVal(s[Len(s)])

\* str::parse::<usize>(): an optional "+" and then one or more decimal
\* digits.  The index texts of the model stay far below usize::MAX.
ParseUsize(s) ==
  LET body == IF Len(s) > 0 /\ s[1] = "+" THEN Tail(s) ELSE s
  IN IF Len(body) = 0 \/ \E i \in 1..Len(body) : ~IsDigit(body[i])
     THEN [ok |-> FALSE, val |-> 0]
     ELSE [ok |-> TRUE, val |-> DigitsVal(body)]

EndsWith(s, c) == Len(s) > 0 /\ s[Len(s)] = c

\* str::trim_start and str::starts_with
IsSpace(c) == c \in {" ", "\n", "\t", "\r"}

RECURSIVE TrimStart(_)
TrimStart(s) == IF Len(s) > 0 /\ IsSpace(s[1]) THEN TrimStart(Tail(s)) ELSE s

StartsWith(s, prefix) ==
  Len(s) >= Len(prefix) /\ SubSeq(s, 1, Len(prefix)) = prefix

(***************************************************************************)
(* The file system: fs::read_to_string(path) fails on a path that is not   *)
(* a readable file and yields the text otherwise.                          *)
(***************************************************************************)
LinesText == <<"l", "i", "n", "e", " ", "1", "\n", "l", "i", "n", "e", " ", "2", "\n", "l", "i", "n", "e", " ", "3", "\n", "l", "i", "n", "e", " ", "4">>

(***************************************************************************)
(* Document fixtures: the text of each file and the document tree that the *)
(* toml and saphyr parsers build from it.  Mapping keys and string scalars *)
(* are character sequences.                                                *)
(***************************************************************************)
K_server == <<"s", "e", "r", "v", "e", "r">>
K_host == <<"h", "o", "s", "t">>
K_port == <<"p", "o", "r", "t">>
K_debug == <<"d", "e", "b", "u", "g">>
K_extra == <<"e", "x", "t", "r", "a">>
K_arrays == <<"a", "r", "r", "a", "y", "s">>
K_numbers == <<"n", "u", "m", "b", "e", "r", "s">>
K_nope == <<"n", "o", "p", "e">>
K_localhost == <<"l", "o", "c", "a", "l", "h", "o", "s", "t">>

DocTomlText ==
  <<"[", "s", "e", "r", "v", "e", "r", "]", "\n", "h", "o", "s", "t", " ", "=", " ", "\"", "l", "o", "c", "a", "l", "h", "o", "s", "t", "\"", "\n", "p", "o", "r", "t", " ", "=", " ", "8", "0", "8", "0", "\n", "d", "e", "b", "u", "g", " ", "=", " ", "t", "r", "u", "e", "\n", "\n", "[", "a", "r", "r", "a", "y", "s", "]", "\n", "n", "u", "m", "b", "e", "r", "s", " ", "=", " ", "[", "1", ",", " ", "2", ",", " ", "3", ",", " ", "4", ",", " ", "5", "]", "\n">>

BareYamlText ==
  <<"s", "e", "r", "v", "e", "r", ":", "\n", " ", " ", "h", "o", "s", "t", ":", " ", "l", "o", "c", "a", "l", "h", "o", "s", "t", "\n", " ", " ", "p", "o", "r", "t", ":", " ", "8", "0", "8", "0", "\n", " ", " ", "d", "e", "b", "u", "g", ":", " ", "t", "r", "u", "e", "\n", " ", " ", "e", "x", "t", "r", "a", ":", " ", "~", "\n", "a", "r", "r", "a", "y", "s", ":", "\n", " ", " ", "n", "u", "m", "b", "e", "r", "s", ":", "\n", " ", " ", " ", " ", "-", " ", "1", "\n", " ", " ", " ", " ", "-", " ", "2", "\n", " ", " ", " ", " ", "-", " ", "3", "\n", " ", " ", " ", " ", "-", " ", "4", "\n", " ", " ", " ", " ", "-", " ", "5", "\n">>

YamlMarker == <<"-", "-", "-", "\n">>

DocYamlText == YamlMarker \o BareYamlText

BadText ==
  <<"[", "s", "e", "r", "v", "e", "r", "\n", "p", "o", "r", "t", " ", "=", " ", "=", " ", "1", "\n">>

Node(t, v) == [t |-> t, v |-> v]
BadValue == Node("BadValue", <<>>)
EmptyMap == [k \in {} |-> BadValue]

DocTomlTree ==
  Node("Table",
       (K_server :> Node("Table", (K_host :> Node("String", K_localhost))
                                  @@ (K_port :> Node("Integer", 8080))
                                  @@ (K_debug :> Node("Boolean", TRUE))))
       @@ (K_arrays :> Node("Table", (K_numbers :> Node("Array",
              <<Node("Integer", 1), Node("Integer", 2), Node("Integer", 3),
                Node("Integer", 4), Node("Integer", 5)>>)))))

DocYamlTree ==
  Node("Mapping",
       (K_server :> Node("Mapping", (K_host :> Node("String", K_localhost))
                                    @@ (K_port :> Node("Integer", 8080))
                                    @@ (K_debug :> Node("Boolean", TRUE))
                                    @@ (K_extra :> Node("Null", <<>>))))
       @@ (K_arrays :> Node("Mapping", (K_numbers :> Node("Sequence",
              <<Node("Integer", 1), Node("Integer", 2), Node("Integer", 3),
                Node("Integer", 4), Node("Integer", 5)>>)))))

(***************************************************************************)
(* Server documents: a [server] table with host, port and debug, written   *)
(* as TOML and as YAML (the YAML one also has a null `extra`).  The        *)
(* parsers read the scalars of such a document from its text.              *)
(***************************************************************************)
K_remotehost == <<"r", "e", "m", "o", "t", "e", "h", "o", "s", "t">>
HostNames == {K_localhost, K_remotehost}

T_server_toml == <<"[", "s", "e", "r", "v", "e", "r", "]">>
T_host_toml == <<"h", "o", "s", "t", " ", "=", " ", "\"">>
T_port_toml == <<"p", "o", "r", "t", " ", "=", " ">>
T_debug_toml == <<"d", "e", "b", "u", "g", " ", "=", " ">>
T_server_yaml == <<"s", "e", "r", "v", "e", "r", ":">>
T_host_yaml == <<" ", " ", "h", "o", "s", "t", ":", " ">>
T_port_yaml == <<" ", " ", "p", "o", "r", "t", ":", " ">>
T_debug_yaml == <<" ", " ", "d", "e", "b", "u", "g", ":", " ">>
T_extra_yaml == <<" ", " ", "e", "x", "t", "r", "a", ":", " ", "~">>

ServerTomlText(h, n, d) ==
  T_server_toml \o <<"\n">>
  \o T_host_toml \o h \o <<"\"", "\n">>
  \o T_port_toml \o IntToString(n) \o <<"\n">>
  \o T_debug_toml \o BoolToString(d) \o <<"\n">>

ServerYamlText(h, n, d) ==
  YamlMarker
  \o T_server_yaml \o <<"\n">>
  \o T_host_yaml \o h \o <<"\n">>
  \o T_port_yaml \o IntToString(n) \o <<"\n">>
  \o T_debug_yaml \o BoolToString(d) \o <<"\n">>
  \o T_extra_yaml \o <<"\n">>

ServerTomlTree(h, n, d) ==
  Node("Table",
       (K_server :> Node("Table", (K_host :> Node("String", h))
                                  @@ (K_port :> Node("Integer", n))
                                  @@ (K_debug :> Node("Boolean", d)))))

ServerYamlTree(h, n, d) ==
  Node("Mapping",
       (K_server :> Node("Mapping", (K_host :> Node("String", h))
                                    @@ (K_port :> Node("Integer", n))
                                    @@ (K_debug :> Node("Boolean", d))
                                    @@ (K_extra :> Node("Null", <<>>)))))

\* an integer scalar: an optional "-" and then one or more decimal digits,
\* far inside the range of i64
ParseI64(s) ==
  LET neg == Len(s) > 0 /\ s[1] = "-"
      body == IF neg THEN Tail(s) ELSE s
  IN IF Len(body) = 0 \/ \E i \in 1..Len(body) : ~IsDigit(body[i])
     THEN [ok |-> FALSE, val |-> 0]
     ELSE [ok |-> TRUE, val |-> IF neg THEN 0 - DigitsVal(body) ELSE DigitsVal(body)]

\* a boolean scalar
ParseBool(s) ==
  IF s = <<"t", "r", "u", "e">> THEN [ok |-> TRUE, val |-> TRUE]
  ELSE IF s = <<"f", "a", "l", "s", "e">> THEN [ok |-> TRUE, val |-> FALSE]
  ELSE [ok |-> FALSE, val |-> FALSE]

After(line, prefix) == SubSeq(line, Len(prefix) + 1, Len(line))

\* the document of the leaves read from a TOML server document
ServerTomlLeaves(h, n, d) ==
  IF h \in HostNames /\ n.ok /\ d.ok
  THEN Ok(ServerTomlTree(h, n.val, d.val))
  ELSE Err("TomlDe", [msg |-> "invalid TOML"])

\* the parse of the lines of a text: a TOML server document or an error
ServerTomlLines(ls) ==
  IF /\ Len(ls) = 4
     /\ ls[1] = T_server_toml
     /\ StartsWith(ls[2], T_host_toml) /\ EndsWith(ls[2], "\"")
     /\ Len(ls[2]) > Len(T_host_toml)
     /\ StartsWith(ls[3], T_port_toml)
     /\ StartsWith(ls[4], T_debug_toml)
  THEN ServerTomlLeaves(SubSeq(ls[2], Len(T_host_toml) + 1, Len(ls[2]) - 1),
                        ParseI64(After(ls[3], T_port_toml)),
                        ParseBool(After(ls[4], T_debug_toml)))
  ELSE Err("TomlDe", [msg |-> "invalid TOML"])

ServerTomlDoc(text) == ServerTomlLines(Lines(text))

\* the documents of the leaves read from a YAML server document
ServerYamlLeaves(h, n, d) ==
  IF h \in HostNames /\ n.ok /\ d.ok
  THEN Ok(<<ServerYamlTree(h, n.val, d.val)>>)
  ELSE Err("ScanError", [msg |-> "invalid YAML"])

\* the load of the lines of a (marked) text: a YAML server document or an
\* error
ServerYamlLines(ls) ==
  IF /\ Len(ls) = 6
     /\ ls[1] = <<"-", "-", "-">>
     /\ ls[2] = T_server_yaml
     /\ StartsWith(ls[3], T_host_yaml)
     /\ StartsWith(ls[4], T_port_yaml)
     /\ StartsWith(ls[5], T_debug_yaml)
     /\ ls[6] = T_extra_yaml
  THEN ServerYamlLeaves(After(ls[3], T_host_yaml),
                        ParseI64(After(ls[4], T_port_yaml)),
                        ParseBool(After(ls[5], T_debug_yaml)))
  ELSE Err("ScanError", [msg |-> "invalid YAML"])

ServerYamlDoc(text) == ServerYamlLines(Lines(text))

\* content.parse::<toml::Value>() on the texts of the file system
TomlParse(text) ==
  CASE text = DocTomlText -> Ok(DocTomlTree)
    [] text = <<>> -> Ok(Node("Table", EmptyMap))
    [] OTHER -> ServerTomlDoc(text)

\* saphyr::Yaml::load_from_str on the (marked) texts of the file system
YamlLoad(text) ==
  CASE text = DocYamlText -> Ok(<<DocYamlTree>>)
    [] text = YamlMarker -> Ok(<<Node("Null", <<>>)>>)
    [] text = YamlMarker \o LinesText ->
         Ok(<<Node("String", [i \in 1..Len(LinesText) |->
                 IF LinesText[i] = "\n" THEN " " ELSE LinesText[i]])>>)
    [] OTHER -> ServerYamlDoc(text)

FileSystem ==
  [p \in {"missing", "empty", "lines.txt", "doc.toml", "doc.yaml", "bare.yaml", "bad"} |->
     CASE p = "missing" -> [readable |-> FALSE, text |-> <<>>]
       [] p = "empty" -> [readable |-> TRUE, text |-> <<>>]
       [] p = "lines.txt" -> [readable |-> TRUE, text |-> LinesText]
       [] p = "doc.toml" -> [readable |-> TRUE, text |-> DocTomlText]
       [] p = "doc.yaml" -> [readable |-> TRUE, text |-> DocYamlText]
       [] p = "bare.yaml" -> [readable |-> TRUE, text |-> BareYamlText]
       [] p = "bad" -> [readable |-> TRUE, text |-> BadText]]

Paths == DOMAIN FileSystem

read_to_string(fs, path) ==
  IF fs[path].readable THEN Ok(fs[path].text)
  ELSE Err("Io", [path |-> path])

(***************************************************************************)
(* SpanReader::read                                                        *)
(***************************************************************************)
\* the loop `for line_num in start.line..end.line - 1`: lines[line_num]
\* (0-based) followed by "\n", for line_num = from .. to - 1
RECURSIVE MiddleLines_inclusive(_, _, _)
MiddleLines_inclusive(lines, from, to) ==
  IF from > to THEN <<>>
  ELSE lines[from + 1] \o <<"\n">> \o MiddleLines_inclusive(lines, from + 1, to)

RECURSIVE MiddleLines(_, _, _)
MiddleLines(lines, from, to) ==
  IF from >= to THEN <<>>
  ELSE lines[from + 1] \o <<"\n">> \o MiddleLines(lines, from + 1, to)

\* line[start.column - 1..end.column], reached with both columns <= len
SingleLineSlice_exclusive(line, start, end) ==
  IF start.column = 0
  THEN Panic("attempt to subtract with overflow")
  ELSE IF start.column > end.column
  THEN Panic("slice index starts after its end")
  ELSE Ok(SubSeq(line, start.column, end.column - 1))

SingleLineSlice(line, start, end) ==
  IF start.column = 0
  THEN Panic("attempt to subtract with overflow")
  ELSE IF start.column - 1 > end.column
  THEN Panic("slice index starts after its end")
  ELSE Ok(SubSeq(line, start.column, end.column))

\* variant: the first line is pushed together with its own line terminator
FirstLinePiece_terminated(first_line, start) ==
  IF start.column <= Len(first_line)
  THEN IF start.column = 0
       THEN Panic("attempt to subtract with overflow")
       ELSE Ok(SubSeq(first_line, start.column, Len(first_line)) \o <<"\n">>)
  ELSE Ok(<<>>)

\* first_line[start.column - 1..] when start.column <= len, else nothing
FirstLinePiece(first_line, start) ==
  IF start.column <= Len(first_line)
  THEN IF start.column = 0
       THEN Panic("attempt to subtract with overflow")
       ELSE Ok(SubSeq(first_line, start.column, Len(first_line)))
  ELSE Ok(<<>>)

\* variant: an end column past the last line drops the line
LastLinePiece_dropping(last_line, end) ==
  IF end.column <= Len(last_line)
  THEN SubSeq(last_line, 1, end.column)
  ELSE <<>>

\* last_line[..end.column] when end.column <= len, else the whole line
LastLinePiece(last_line, end) ==
  IF end.column <= Len(last_line)
  THEN SubSeq(last_line, 1, end.column)
  ELSE last_line

SpanReader_read(fs, r) ==
  LET rd == read_to_string(fs, r.file_path)
      content == IF rd.tag = "Ok" THEN rd.val ELSE <<>>
      lines == Lines(content)
      start == r.start
      end == r.end
  IN IF \/ start.line = 0
        \/ end.line = 0
        \/ start.line > Len(lines)
        \/ end.line > Len(lines)
        \/ start.line > end.line
     THEN Panic("out-of-bounds start and end lines")
     ELSE IF start.line = end.line
     THEN LET line == lines[start.line]
          IN IF start.column > Len(line) \/ end.column > Len(line)
             THEN Panic("out-of-bounds start and end columns")
             ELSE SingleLineSlice(line, start, end)
     ELSE LET first == FirstLinePiece(lines[start.line], start)
          IN IF first.tag # "Ok" THEN first
             ELSE Ok(first.val \o <<"\n">>
                     \o MiddleLines(lines, start.line, end.line - 1)
                     \o LastLinePiece(lines[end.line], end))

(***************************************************************************)
(* QueryReader::read                                                       *)
(***************************************************************************)
QueryReader_read(fs, r) ==
  LET rd == read_to_string(fs, r.file_path)
  IN IF rd.tag # "Ok" THEN Panic("Failed to read file")
     ELSE IF Contains(rd.val, r.query) THEN Ok(r.query)
     ELSE Panic("Query not found in file")

\* current_path.push('.') unless empty, then push_str(part)
PushPart(current_path, part) ==
  (IF current_path # <<>> THEN current_path \o <<".">> ELSE current_path) \o part

Suffix_array == <<" ", "(", "a", "r", "r", "a", "y", " ", "r", "e", "q", "u", "i", "r", "e", "s", " ", "i", "n", "d", "e", "x", ")">>
Suffix_table == <<" ", "(", "t", "a", "b", "l", "e", " ", "r", "e", "q", "u", "i", "r", "e", "s", " ", "k", "e", "y", ")">>
Placeholder_object == <<"[", "O", "b", "j", "e", "c", "t", "]">>
Text_null == <<"n", "u", "l", "l">>

KeyNotFound(key_path, file_path) ==
  Err("KeyNotFound", [key_path |-> key_path, file_path |-> file_path])

ParseError(file_type, path, source) ==
  Err("Parse", [file_type |-> file_type, path |-> path, source |-> source])

FileOperation(path) == Err("FileOperation", [path |-> path])

\* impl From<anyhow::Error> for AppError
FromAnyhow(message) == Err("ConfigError", [message |-> message])

(***************************************************************************)
(* TomlReader::read                                                        *)
(***************************************************************************)
\* `if index < arr.len() { &arr[index] }`, None on the else branch
TomlArrayGet_onebased(arr, index) ==
  IF index >= 1 /\ index <= Len(arr) THEN Ok(arr[index]) ELSE None

TomlArrayGet(arr, index) ==
  IF index < Len(arr) THEN Ok(arr[index + 1]) ELSE None

\* the for loop over path_parts, from part i on
RECURSIVE TomlWalk(_, _, _, _, _)
TomlWalk(r, path_parts, i, current_value, current_path0) ==
  IF i > Len(path_parts) THEN Ok(current_value)
  ELSE
    LET part == path_parts[i]
        current_path == PushPart(current_path0, part)
        bracket_pos == Find(part, "[")
    IN IF bracket_pos # -1
       THEN IF EndsWith(part, "]")
            THEN LET key_name == SubSeq(part, 1, bracket_pos)
                     index_str == SubSeq(part, bracket_pos + 2, Len(part) - 1)
                 IN IF current_value.t = "Table"
                    THEN IF key_name \in DOMAIN current_value.v
                         THEN LET array_value == current_value.v[key_name]
                              IN IF array_value.t = "Array"
                                 THEN LET index == ParseUsize(index_str)
                                      IN IF ~index.ok
                                         THEN ParseError("TOML", r.file_path,
                                                [msg |-> "ParseIntError", text |-> index_str])
                                         ELSE IF TomlArrayGet(array_value.v, index.val).tag = "Ok"
                                         THEN TomlWalk(r, path_parts, i + 1,
                                                       TomlArrayGet(array_value.v, index.val).val,
                                                       current_path)
                                         ELSE KeyNotFound(key_name \o <<"[">> \o NatToString(index.val) \o <<"]">>,
                                                          r.file_path)
                                 ELSE KeyNotFound(key_name, r.file_path)
                         ELSE KeyNotFound(key_name, r.file_path)
                    ELSE KeyNotFound(current_path, r.file_path)
            ELSE ParseError("TOML", r.file_path,
                   [msg |-> "Malformed array index notation", text |-> part])
       ELSE IF current_value.t = "Table"
            THEN IF part \in DOMAIN current_value.v
                 THEN TomlWalk(r, path_parts, i + 1, current_value.v[part], current_path)
                 ELSE KeyNotFound(current_path, r.file_path)
            ELSE KeyNotFound(current_path, r.file_path)

\* variant that returns a string leaf together with its quotes
TomlStringify_quoted(r, current_value) ==
  CASE current_value.t = "String" -> Ok(<<"\"">> \o current_value.v \o <<"\"">>)
    [] current_value.t = "Integer" -> Ok(IntToString(current_value.v))
    [] current_value.t = "Float" -> Ok(current_value.v)
    [] current_value.t = "Boolean" -> Ok(BoolToString(current_value.v))
    [] current_value.t = "Datetime" -> Ok(current_value.v)
    [] current_value.t = "Array" -> KeyNotFound(r.key_path \o Suffix_array, r.file_path)
    [] current_value.t = "Table" -> KeyNotFound(r.key_path \o Suffix_table, r.file_path)

\* the final match on current_value
TomlStringify(r, current_value) ==
  CASE current_value.t = "String" -> Ok(current_value.v)
    [] current_value.t = "Integer" -> Ok(IntToString(current_value.v))
    [] current_value.t = "Float" -> Ok(current_value.v)
    [] current_value.t = "Boolean" -> Ok(BoolToString(current_value.v))
    [] current_value.t = "Datetime" -> Ok(current_value.v)
    [] current_value.t = "Array" -> KeyNotFound(r.key_path \o Suffix_array, r.file_path)
    [] current_value.t = "Table" -> KeyNotFound(r.key_path \o Suffix_table, r.file_path)

TomlReader_read(fs, r) ==
  LET rd == read_to_string(fs, r.file_path)
  IN IF rd.tag # "Ok" THEN FileOperation(r.file_path)
     ELSE LET parsed == TomlParse(rd.val)
          IN IF parsed.tag # "Ok"
             THEN ParseError("TOML", r.file_path, parsed.info)
             ELSE LET walked == TomlWalk(r, Split(r.key_path, "."), 1, parsed.val, <<>>)
                  IN IF walked.tag # "Ok" THEN walked
                     ELSE TomlStringify(r, walked.val)

(***************************************************************************)
(* YamlReader::read                                                        *)
(***************************************************************************)
\* Index<&str> for Yaml: the value under a string key of a mapping, the
\* BadValue node for an absent key or a node that is no mapping (the node
\* that line 92 tests with is_badvalue)
YamlIndex(node, key) ==
  IF node.t = "Mapping" /\ key \in DOMAIN node.v THEN node.v[key] ELSE BadValue

\* `if index < arr.len() { &arr[index] }`, None on the else branch
YamlArrayGet(arr, index) ==
  IF index < Len(arr) THEN Ok(arr[index + 1]) ELSE None

\* the for loop over path_parts, from part i on
RECURSIVE YamlWalk(_, _, _, _, _)
YamlWalk(r, path_parts, i, current_value, current_path0) ==
  IF i > Len(path_parts) THEN Ok(current_value)
  ELSE
    LET part == path_parts[i]
        current_path == PushPart(current_path0, part)
        bracket_pos == Find(part, "[")
    IN IF bracket_pos # -1
       THEN IF EndsWith(part, "]")
            THEN LET key_name == SubSeq(part, 1, bracket_pos)
                     index_str == SubSeq(part, bracket_pos + 2, Len(part) - 1)
                     array_value == YamlIndex(current_value, key_name)
                 IN IF array_value.t = "Sequence"
                    THEN LET index == ParseUsize(index_str)
                         IN IF ~index.ok
                            THEN FromAnyhow([msg |-> "Invalid array index", text |-> index_str,
                                             file |-> r.file_path])
                            ELSE IF YamlArrayGet(array_value.v, index.val).tag = "Ok"
                            THEN YamlWalk(r, path_parts, i + 1,
                                          YamlArrayGet(array_value.v, index.val).val,
                                          current_path)
                            ELSE KeyNotFound(key_name \o <<"[">> \o NatToString(index.val) \o <<"]">>,
                                             r.file_path)
                    ELSE KeyNotFound(key_name, r.file_path)
            ELSE ParseError("YAML", r.file_path,
                   [msg |-> "Malformed array index notation", text |-> part])
       ELSE LET next_value == YamlIndex(current_value, part)
            IN IF next_value.t = "BadValue"
               THEN KeyNotFound(current_path, r.file_path)
               ELSE YamlWalk(r, path_parts, i + 1, next_value, current_path)

\* variant that renders an integer leaf in its Debug form
YamlStringify_debug(r, current_value) ==
  CASE current_value.t = "String" -> Ok(current_value.v)
    [] current_value.t = "Integer" ->
         Ok(<<"I", "n", "t", "e", "g", "e", "r", "(">> \o IntToString(current_value.v) \o <<")">>)
    [] current_value.t = "Float" -> Ok(current_value.v)
    [] current_value.t = "Boolean" -> Ok(BoolToString(current_value.v))
    [] current_value.t = "Sequence" -> KeyNotFound(r.key_path \o Suffix_array, r.file_path)
    [] current_value.t = "Mapping" -> Ok(Placeholder_object)
    [] current_value.t = "Null" -> Ok(Text_null)
    [] OTHER -> Ok(current_value.v)

\* the final if / else-if chain on current_value
YamlStringify(r, current_value) ==
  CASE current_value.t = "String" -> Ok(current_value.v)
    [] current_value.t = "Integer" -> Ok(IntToString(current_value.v))
    [] current_value.t = "Float" -> Ok(current_value.v)
    [] current_value.t = "Boolean" -> Ok(BoolToString(current_value.v))
    [] current_value.t = "Sequence" -> KeyNotFound(r.key_path \o Suffix_array, r.file_path)
    [] current_value.t = "Mapping" -> Ok(Placeholder_object)
    [] current_value.t = "Null" -> Ok(Text_null)
    [] OTHER -> Ok(current_value.v)

YamlReader_read(fs, r) ==
  LET rd == read_to_string(fs, r.file_path)
  IN IF rd.tag # "Ok" THEN FileOperation(r.file_path)
     ELSE LET content == rd.val
              content_with_marker ==
                IF ~StartsWith(TrimStart(content), <<"-", "-", "-">>)
                THEN YamlMarker \o content
                ELSE content
              docs == YamlLoad(content_with_marker)
          IN IF docs.tag # "Ok"
             THEN ParseError("YAML", r.file_path, docs.info)
             ELSE IF Len(docs.val) = 0
             THEN ParseError("YAML", r.file_path, [msg |-> "No YAML documents found"])
             ELSE LET walked == YamlWalk(r, Split(r.key_path, "."), 1, docs.val[1], <<>>)
                  IN IF walked.tag # "Ok" THEN walked
                     ELSE YamlStringify(r, walked.val)

(***************************************************************************)
(* Accessor::read                                                          *)
(***************************************************************************)
\* variant whose Toml and Yaml arms call each other's reader
Accessor_read_crossed(fs, acc) ==
  CASE acc.variant = "Spans" -> SpanReader_read(fs, acc.reader)
    [] acc.variant = "Toml" -> YamlReader_read(fs, acc.reader)
    [] acc.variant = "Yaml" -> TomlReader_read(fs, acc.reader)
    [] acc.variant = "Query" -> QueryReader_read(fs, acc.reader)

Accessor_read(fs, acc) ==
  CASE acc.variant = "Spans" -> SpanReader_read(fs, acc.reader)
    [] acc.variant = "Toml" -> TomlReader_read(fs, acc.reader)
    [] acc.variant = "Yaml" -> YamlReader_read(fs, acc.reader)
    [] acc.variant = "Query" -> QueryReader_read(fs, acc.reader)

(***************************************************************************)
(* Linker::check:  Ok(self.a.read()? == self.b.read()?)                    *)
(***************************************************************************)
\* the `?` after a read: continue on Ok, leave check at once otherwise
Try(out) == out.tag = "Ok"

\* the value `?` returns from check: the read's own failure (AppError into
\* AppError is the identity; a panic keeps unwinding)
Propagate_nonmatch(out) == Ok(FALSE)

Propagate(out) == out

\* String == String
Linker_check_compare_trimmed(sa, sb) == Ok(TrimStart(sa) = TrimStart(sb))

Linker_check_compare(sa, sb) == Ok(sa = sb)

ReadEntry(op, side) ==
  [op |-> op, side |-> side, path |-> linker[side].reader.file_path]

Linker_check_call ==
  /\ pc = "idle"
  /\ pc' = "readA"
  /\ UNCHANGED <<worker, config, calls, files, linker, ra, rb, result, outA, outB, reads>>

\* variant that evaluates both reads before looking at either outcome
Linker_check_readA_eager ==
  /\ pc = "readA"
  /\ LET outa == Accessor_read(files, linker.a)
         outb == Accessor_read(files, linker.b)
     IN /\ ra' = outa
        /\ rb' = outb
        /\ result' = IF ~Try(outa) THEN Propagate(outa)
                     ELSE IF ~Try(outb) THEN Propagate(outb)
                     ELSE Linker_check_compare(outa.val, outb.val)
  /\ pc' = "done"
  /\ reads' = reads \o <<ReadEntry("check", "a"), ReadEntry("check", "b")>>
  /\ UNCHANGED <<worker, config, calls, files, linker, outA, outB>>

Linker_check_readA ==
  /\ pc = "readA"
  /\ LET out == Accessor_read(files, linker.a)
     IN /\ ra' = out
        /\ IF Try(out)
           THEN pc' = "readB" /\ result' = result
           ELSE pc' = "done" /\ result' = Propagate(out)
  /\ reads' = Append(reads, ReadEntry("check", "a"))
  /\ UNCHANGED <<worker, config, calls, files, linker, rb, outA, outB>>

Linker_check_readB ==
  /\ pc = "readB"
  /\ LET out == Accessor_read(files, linker.b)
     IN /\ rb' = out
        /\ result' = IF Try(out) THEN Linker_check_compare(ra.val, out.val)
                    ELSE Propagate(out)
  /\ pc' = "done"
  /\ reads' = Append(reads, ReadEntry("check", "b"))
  /\ UNCHANGED <<worker, config, calls, files, linker, ra, outA, outB>>

\* variant whose read leaves the file it has read empty
Accessor_read_a_draining ==
  /\ outA = None
  /\ outA' = Accessor_read(files, linker.a)
  /\ reads' = Append(reads, ReadEntry("read", "a"))
  /\ files' = [files EXCEPT ![linker.a.reader.file_path].text = <<>>]
  /\ UNCHANGED <<worker, config, calls, linker, pc, ra, rb, result, outB>>

\* a direct call of linker.a.read()
Accessor_read_a ==
  /\ outA = None
  /\ outA' = Accessor_read(files, linker.a)
  /\ reads' = Append(reads, ReadEntry("read", "a"))
  /\ UNCHANGED <<worker, config, calls, files, linker, pc, ra, rb, result, outB>>

\* a direct call of linker.b.read()
Accessor_read_b ==
  /\ outB = None
  /\ outB' = Accessor_read(files, linker.b)
  /\ reads' = Append(reads, ReadEntry("read", "b"))
  /\ UNCHANGED <<worker, config, calls, files, linker, pc, ra, rb, result, outA>>

\* no second check has been started, no configuration has been loaded
NoWorker == [linker |-> None, pc |-> "off", ra |-> None, rb |-> None, result |-> None]

NoConfig == [value |-> None, loaded |-> None, key |-> None, got |-> None]

(***************************************************************************)
(* Inputs.                                                                 *)
(***************************************************************************)
Cursor(line, column) == [line |-> line, column |-> column]

SpanAcc(f, sl, sc, el, ec) ==
  [variant |-> "Spans",
   reader |-> [file_path |-> f, start |-> Cursor(sl, sc), end |-> Cursor(el, ec)]]

TomlAcc(f, k) == [variant |-> "Toml", reader |-> [file_path |-> f, key_path |-> k]]

YamlAcc(f, k) == [variant |-> "Yaml", reader |-> [file_path |-> f, key_path |-> k]]

QueryAcc(f, q) == [variant |-> "Query", reader |-> [file_path |-> f, query |-> q]]

RECURSIVE JoinDots(_)
JoinDots(segs) ==
  IF Len(segs) = 1 THEN segs[1]
  ELSE segs[1] \o <<".">> \o JoinDots(Tail(segs))

Q_ne2 == <<"n", "e", " ", "2">>
Q_8080 == <<"8", "0", "8", "0">>
Q_sp8080 == <<" ", "8", "0", "8", "0">>
Q_zzz == <<"z", "z", "z">>

P_server_port == JoinDots(<<K_server, K_port>>)
P_server_host == JoinDots(<<K_server, K_host>>)

\* the accessors a Linker is built from in the linker-level specification
LinkAccessors ==
  { SpanAcc("lines.txt", 2, 3, 2, 6),
    SpanAcc("lines.txt", 2, 3, 3, 4),
    SpanAcc("lines.txt", 5, 1, 5, 1),
    SpanAcc("missing", 1, 1, 1, 1),
    SpanAcc("doc.toml", 3, 8, 3, 11),
    QueryAcc("lines.txt", Q_ne2),
    QueryAcc("lines.txt", Q_zzz),
    QueryAcc("doc.toml", Q_8080),
    QueryAcc("doc.toml", Q_sp8080),
    QueryAcc("missing", Q_ne2),
    TomlAcc("doc.toml", P_server_port),
    TomlAcc("doc.toml", P_server_host),
    TomlAcc("doc.toml", K_nope),
    TomlAcc("missing", P_server_port),
    TomlAcc("bad", P_server_port),
    YamlAcc("doc.yaml", P_server_port),
    YamlAcc("bare.yaml", P_server_host),
    YamlAcc("doc.yaml", K_server),
    YamlAcc("missing", P_server_port) }

InitCommon ==
  /\ files = FileSystem
  /\ pc = "idle"
  /\ ra = None
  /\ rb = None
  /\ result = None
  /\ outA = None
  /\ outB = None
  /\ reads = <<>>
  /\ calls = <<>>
  /\ worker = NoWorker
  /\ config = NoConfig

Init ==
  /\ InitCommon
  /\ \E x \in LinkAccessors, y \in LinkAccessors : linker = [a |-> x, b |-> y]

Next ==
  \/ Linker_check_call
  \/ Linker_check_readA
  \/ Linker_check_readB
  \/ Accessor_read_a
  \/ Accessor_read_b

Spec == Init /\ [][Next]_vars

(***************************************************************************)
(* Span reader inputs: every cursor pair within the bounds.                *)
(***************************************************************************)
SpanFiles == {"lines.txt", "doc.toml", "empty", "missing"}

SpanAccessors ==
  { SpanAcc(f, sl, sc, el, ec) :
      f \in SpanFiles, sl \in 0..MaxLine, sc \in 0..MaxCol,
      el \in 0..MaxLine, ec \in 0..MaxCol }

InitSpan ==
  /\ InitCommon
  /\ \E x \in SpanAccessors : linker = [a |-> x, b |-> QueryAcc("lines.txt", Q_ne2)]

NextSpan ==
  \/ Linker_check_call
  \/ Linker_check_readA
  \/ Linker_check_readB
  \/ Accessor_read_a

SpecSpan == InitSpan /\ [][NextSpan]_vars

(***************************************************************************)
(* Structured reader inputs: the same key path given to a TomlReader (a)   *)
(* and to a YamlReader (b), over corresponding files.                      *)
(***************************************************************************)
Names == {K_server, K_host, K_port, K_debug, K_extra, K_arrays, K_numbers, K_nope, <<>>}

IndexText(i) == NatToString(i)

IndexTexts == {IndexText(i) : i \in 0..MaxIndex} \cup {<<"x">>, <<>>}

Bracket(name, text) == name \o <<"[">> \o text \o <<"]">>

BracketSegs == {Bracket(n, t) : n \in {K_numbers, K_port}, t \in IndexTexts}

MalformedSegs == {K_numbers \o <<"[", "0">>, K_numbers \o <<"[", "0", "]", "x">>}

Segs == Names \cup BracketSegs \cup MalformedSegs

KeyPaths == {JoinDots(p) : p \in UNION {[1..n -> Segs] : n \in 1..MaxSegs}}

StructFilePairs ==
  { <<"doc.toml", "doc.yaml">>, <<"doc.toml", "bare.yaml">>, <<"empty", "empty">>,
    <<"bad", "bad">>, <<"missing", "missing">>, <<"lines.txt", "lines.txt">> }

InitStruct ==
  /\ InitCommon
  /\ \E fp \in StructFilePairs, k \in KeyPaths :
        linker = [a |-> TomlAcc(fp[1], k), b |-> YamlAcc(fp[2], k)]

NextStruct ==
  \/ Accessor_read_a
  \/ Accessor_read_b

SpecStruct == InitStruct /\ [][NextStruct]_vars

(***************************************************************************)
(* Query reader inputs: every piece of the four-line text up to MaxQuery   *)
(* characters, the empty query and texts that occur in no or other files.  *)
(***************************************************************************)
Queries ==
  {SubSeq(LinesText, w[1], w[1] + w[2] - 1) :
      w \in {v \in (1..Len(LinesText)) \X (0..MaxQuery) :
                v[1] + v[2] - 1 <= Len(LinesText)}}
  \cup {Q_zzz, Q_8080, Q_ne2}

QueryAccessors == {QueryAcc(f, q) : f \in DOMAIN FileSystem, q \in Queries}

InitQuery ==
  /\ InitCommon
  /\ \E x \in QueryAccessors : linker = [a |-> x, b |-> QueryAcc("lines.txt", Q_ne2)]

SpecQuery == InitQuery /\ [][NextSpan]_vars

(***************************************************************************)
(* Cross-format inputs: a TOML and a YAML server document with the same    *)
(* host, port and debug, and a second YAML document whose leaves all       *)
(* differ; the linker pairs the TOML reader with a YAML reader on the same *)
(* key path, in either a/b assignment.                                     *)
(***************************************************************************)
PortValues == ((0 - MaxPort)..MaxPort) \cup {8080}

OtherHost(h) == IF h = K_localhost THEN K_remotehost ELSE K_localhost

CrossFileSystem(h, n, d) ==
  [p \in DOMAIN FileSystem \cup {"server.toml", "server.yaml", "other.yaml"} |->
     CASE p = "server.toml" -> [readable |-> TRUE, text |-> ServerTomlText(h, n, d)]
       [] p = "server.yaml" -> [readable |-> TRUE, text |-> ServerYamlText(h, n, d)]
       [] p = "other.yaml" ->
            [readable |-> TRUE, text |-> ServerYamlText(OtherHost(h), n + 1, ~d)]
       [] OTHER -> FileSystem[p]]

CrossKeys == {JoinDots(<<K_server, k>>) : k \in {K_host, K_port, K_debug, K_extra}}

CrossLinkers ==
  {[a |-> TomlAcc("server.toml", k), b |-> YamlAcc(y, k)] :
      k \in CrossKeys, y \in {"server.yaml", "other.yaml"}}
  \cup {[a |-> YamlAcc(y, k), b |-> TomlAcc("server.toml", k)] :
      k \in CrossKeys, y \in {"server.yaml", "other.yaml"}}

InitCross ==
  /\ \E h \in HostNames, n \in PortValues, d \in BOOLEAN :
        files = CrossFileSystem(h, n, d)
  /\ linker \in CrossLinkers
  /\ pc = "idle"
  /\ ra = None
  /\ rb = None
  /\ result = None
  /\ outA = None
  /\ outB = None
  /\ reads = <<>>
  /\ calls = <<>>
  /\ worker = NoWorker
  /\ config = NoConfig

SpecCross == InitCross /\ [][Next]_vars

(***************************************************************************)
(* Repeated calls on one Linker: check, check on the Linker with a and b   *)
(* exchanged, and read on either accessor, each as one synchronous call,   *)
(* and a file that is rewritten between two calls.  Every completed call   *)
(* is recorded with the file system it ran against.                        *)
(***************************************************************************)
\* variant that reports a failure of b as "not equal"
Linker_check_lenient(fs, l) ==
  LET outa == Accessor_read(fs, l.a)
  IN IF ~Try(outa) THEN Propagate(outa)
     ELSE LET outb == Accessor_read(fs, l.b)
          IN IF ~Try(outb) THEN Ok(FALSE)
             ELSE Linker_check_compare(outa.val, outb.val)

\* Ok(self.a.read()? == self.b.read()?) as one call
Linker_check(fs, l) ==
  LET outa == Accessor_read(fs, l.a)
  IN IF ~Try(outa) THEN Propagate(outa)
     ELSE LET outb == Accessor_read(fs, l.b)
          IN IF ~Try(outb) THEN Propagate(outb)
             ELSE Linker_check_compare(outa.val, outb.val)

\* Linker { a: y, b: x } for Linker { a: x, b: y }
Swapped(l) == [a |-> l.b, b |-> l.a]

CallEntry(op, out) == [op |-> op, fs |-> files, out |-> out]

\* variant that answers only the first check and fails afterwards
Call_check_once ==
  /\ Len(calls) < MaxCalls
  /\ calls' = Append(calls, CallEntry("check",
                 IF \E i \in 1..Len(calls) : calls[i].op = "check"
                 THEN FromAnyhow("already checked")
                 ELSE Linker_check(files, linker)))
  /\ UNCHANGED <<worker, config, files, linker, pc, ra, rb, result, outA, outB, reads>>

\* linker.check()
Call_check ==
  /\ Len(calls) < MaxCalls
  /\ calls' = Append(calls, CallEntry("check", Linker_check(files, linker)))
  /\ UNCHANGED <<worker, config, files, linker, pc, ra, rb, result, outA, outB, reads>>

\* Linker { a: linker.b, b: linker.a }.check()
Call_check_swapped ==
  /\ Len(calls) < MaxCalls
  /\ calls' = Append(calls, CallEntry("check_swapped",
                                      Linker_check(files, Swapped(linker))))
  /\ UNCHANGED <<worker, config, files, linker, pc, ra, rb, result, outA, outB, reads>>

\* linker.a.read() or linker.b.read()
Call_read(side) ==
  /\ Len(calls) < MaxCalls
  /\ calls' = Append(calls, CallEntry("read_" \o side,
                                      Accessor_read(files, linker[side])))
  /\ UNCHANGED <<worker, config, files, linker, pc, ra, rb, result, outA, outB, reads>>

\* another process truncates a file that the readers read
FileChanged ==
  /\ files = FileSystem
  /\ \E p \in {"lines.txt", "doc.toml"} :
        files' = [files EXCEPT ![p].text = <<>>]
  /\ UNCHANGED <<worker, config, linker, pc, ra, rb, result, outA, outB, reads, calls>>

CallPartners ==
  { QueryAcc("lines.txt", Q_ne2),
    TomlAcc("doc.toml", P_server_port),
    YamlAcc("doc.yaml", P_server_port),
    SpanAcc("missing", 1, 1, 1, 1) }

InitCalls ==
  /\ InitCommon
  /\ \E x \in LinkAccessors, y \in CallPartners : linker = [a |-> x, b |-> y]

NextCalls ==
  \/ Call_check
  \/ Call_check_swapped
  \/ \E side \in {"a", "b"} : Call_read(side)
  \/ FileChanged

SpecCalls == InitCalls /\ [][NextCalls]_vars

(***************************************************************************)
(* Two checks in parallel: besides the check of `linker`, a second thread  *)
(* runs Linker::check on a Linker of its own; the file reads of the two    *)
(* calls interleave in every order.  Each thread has its own locals.       *)
(***************************************************************************)
WorkerLinkers == {[a |-> x, b |-> y] : x \in CallPartners, y \in CallPartners}

WorkerReadEntry(side) ==
  [op |-> "worker", side |-> side, path |-> worker.linker[side].reader.file_path]

Worker_check_call ==
  /\ worker.pc = "off"
  /\ \E l \in WorkerLinkers :
        worker' = [linker |-> l, pc |-> "readA", ra |-> None, rb |-> None,
                   result |-> None]
  /\ UNCHANGED <<config, files, linker, pc, ra, rb, result, outA, outB, reads, calls>>

Worker_check_readA ==
  /\ worker.pc = "readA"
  /\ LET out == Accessor_read(files, worker.linker.a)
     IN worker' = [worker EXCEPT !.ra = out,
                                 !.pc = IF Try(out) THEN "readB" ELSE "done",
                                 !.result = IF Try(out) THEN @ ELSE Propagate(out)]
  /\ reads' = Append(reads, WorkerReadEntry("a"))
  /\ UNCHANGED <<config, files, linker, pc, ra, rb, result, outA, outB, calls>>

\* variant that keeps the string read from a in a buffer shared by all checks
Worker_check_readB_shared ==
  /\ worker.pc = "readB"
  /\ LET out == Accessor_read(files, worker.linker.b)
         shared == IF ra.tag = "Ok" THEN ra.val ELSE worker.ra.val
     IN worker' = [worker EXCEPT !.rb = out,
                                 !.pc = "done",
                                 !.result = IF Try(out)
                                            THEN Linker_check_compare(shared, out.val)
                                            ELSE Propagate(out)]
  /\ reads' = Append(reads, WorkerReadEntry("b"))
  /\ UNCHANGED <<config, files, linker, pc, ra, rb, result, outA, outB, calls>>

Worker_check_readB ==
  /\ worker.pc = "readB"
  /\ LET out == Accessor_read(files, worker.linker.b)
     IN worker' = [worker EXCEPT !.rb = out,
                                 !.pc = "done",
                                 !.result = IF Try(out)
                                            THEN Linker_check_compare(worker.ra.val, out.val)
                                            ELSE Propagate(out)]
  /\ reads' = Append(reads, WorkerReadEntry("b"))
  /\ UNCHANGED <<config, files, linker, pc, ra, rb, result, outA, outB, calls>>

NextPar ==
  \/ Linker_check_call
  \/ Linker_check_readA
  \/ Linker_check_readB
  \/ Worker_check_call
  \/ Worker_check_readA
  \/ Worker_check_readB

SpecPar == InitCalls /\ [][NextPar]_vars

(***************************************************************************)
(* Config: load, parse_config, get_linker and check.  The parsed config    *)
(* file is a toml::Value: tables are functions from key strings to nodes.  *)
(***************************************************************************)
\* the payload of a toml::Value of the config file
Unwrap(value) ==
  CASE "str" \in DOMAIN value.v -> value.v.str
    [] "text" \in DOMAIN value.v -> value.v.text
    [] "int" \in DOMAIN value.v -> value.v.int
    [] "tab" \in DOMAIN value.v -> value.v.tab

\* table[key] of a table that has the key
Field(table, key) == Unwrap(table)[key]

\* toml::Value::get(key): the entry of a table, None for an absent key and
\* for a value that is no table
Value_get(value, key) ==
  IF value.t = "Table" /\ key \in DOMAIN Unwrap(value)
  THEN Ok(Unwrap(value)[key])
  ELSE None

\* .and_then(|v| v.as_str()), as_integer and as_table
And_then_as(opt, t) ==
  IF opt.tag = "Ok" /\ opt.val.t = t THEN Ok(Unwrap(opt.val)) ELSE None

\* .with_context(|| "Missing ...")? on a None: an anyhow error, which `?`
\* turns into AppError::ConfigError
Missing(field, link_key, side) ==
  FromAnyhow([missing |-> field, link |-> link_key, side |-> side])

\* Config::resolve_path for the relative paths of the model
resolve_path(file_path, config_dir) ==
  IF config_dir = "" THEN file_path ELSE config_dir \o "/" \o file_path

\* the `start` / `end` cursor of a span accessor: Ok(Cursor) or the error
parse_cursor(x_value, name, link_key, side) ==
  IF And_then_as(Value_get(x_value, name), "Table").tag # "Ok"
  THEN Missing(name, link_key, side)
  ELSE IF And_then_as(Value_get(Field(x_value, name), "line"), "Integer").tag # "Ok"
  THEN Missing(name \o ".line", link_key, side)
  ELSE IF And_then_as(Value_get(Field(x_value, name), "column"), "Integer").tag # "Ok"
  THEN Missing(name \o ".column", link_key, side)
  ELSE Ok(Cursor(Unwrap(Field(Field(x_value, name), "line")),
                 Unwrap(Field(Field(x_value, name), "column"))))

\* the span arm once file_path is known
parse_span(x_value, file_path, start, end) ==
  IF start.tag # "Ok" THEN start
  ELSE IF end.tag # "Ok" THEN end
  ELSE Ok([variant |-> "Spans",
           reader |-> [file_path |-> file_path, start |-> start.val, end |-> end.val]])

\* the match on the kind, once kind and file_path are known to be strings
parse_kind(x_value, kind, file_path, link_key, side) ==
  CASE kind \in {"toml", "yaml"} ->
         IF And_then_as(Value_get(x_value, "key_path"), "String").tag # "Ok"
         THEN Missing("key_path", link_key, side)
         ELSE Ok([variant |-> IF kind = "toml" THEN "Toml" ELSE "Yaml",
                  reader |-> [file_path |-> file_path,
                              key_path |-> Unwrap(Field(x_value, "key_path"))]])
    [] kind = "span" ->
         parse_span(x_value, file_path,
                    parse_cursor(x_value, "start", link_key, side),
                    parse_cursor(x_value, "end", link_key, side))
    [] kind = "query" ->
         IF And_then_as(Value_get(x_value, "query"), "String").tag # "Ok"
         THEN Missing("query", link_key, side)
         ELSE Ok(QueryAcc(file_path, Unwrap(Field(x_value, "query"))))

\* "Parse 'a' accessor" / "Parse 'b' accessor": Ok(Accessor) or the error
parse_accessor(x_value, config_dir, link_key, side) ==
  IF And_then_as(Value_get(x_value, "kind"), "String").tag # "Ok"
  THEN Missing("kind", link_key, side)
  ELSE IF Unwrap(Field(x_value, "kind")) \notin {"toml", "span", "yaml", "query"}
  THEN Err("ConfigError", [unknown_kind |-> Unwrap(Field(x_value, "kind")),
                           link |-> link_key, side |-> side])
  ELSE IF And_then_as(Value_get(x_value, "file_path"), "String").tag # "Ok"
  THEN Missing("file_path", link_key, side)
  ELSE parse_kind(x_value, Unwrap(Field(x_value, "kind")),
                  resolve_path(Unwrap(Field(x_value, "file_path")), config_dir),
                  link_key, side)

\* Linker { a: a_accessor, b: b_accessor } unless an accessor failed
parse_link_ab(a_accessor, b_accessor) ==
  IF a_accessor.tag # "Ok" THEN a_accessor
  ELSE IF b_accessor.tag # "Ok" THEN b_accessor
  ELSE Ok([a |-> a_accessor.val, b |-> b_accessor.val])

\* the body of the loop over the links for one link table
parse_link(link_table, config_dir, link_key) ==
  IF Value_get(link_table, "a").tag # "Ok"
  THEN Err("ConfigError", [missing |-> "a", link |-> link_key])
  ELSE IF Value_get(link_table, "b").tag # "Ok"
  THEN Err("ConfigError", [missing |-> "b", link |-> link_key])
  ELSE parse_link_ab(parse_accessor(Field(link_table, "a"), config_dir, link_key, "a"),
                     parse_accessor(Field(link_table, "b"), config_dir, link_key, "b"))

\* the keys of the model in the order in which the links table yields them
LinkOrder == <<"bar", "foo">>

NoLinks == [k \in {} |-> None]

\* continue the loop with the link inserted, or return its error
RECURSIVE parse_links(_, _, _, _)
parse_links_insert(links, config_dir, i, config_links, parsed_link) ==
  IF parsed_link.tag # "Ok" THEN parsed_link
  ELSE parse_links(links, config_dir, i + 1,
                   (LinkOrder[i] :> parsed_link.val) @@ config_links)

\* `for (link_key, link_value) in links`, from the i-th key on; a link
\* value that is no table is passed over
parse_links(links, config_dir, i, config_links) ==
  IF i > Len(LinkOrder) THEN Ok([links |-> config_links])
  ELSE IF LinkOrder[i] \notin DOMAIN links \/ links[LinkOrder[i]].t # "Table"
  THEN parse_links(links, config_dir, i + 1, config_links)
  ELSE parse_links_insert(links, config_dir, i, config_links,
                          parse_link(links[LinkOrder[i]], config_dir, LinkOrder[i]))

\* Config::parse_config
parse_config(value, config_dir) ==
  IF And_then_as(Value_get(value, "links"), "Table").tag = "Ok"
  THEN parse_links(Unwrap(Field(value, "links")), config_dir, 1, NoLinks)
  ELSE Ok([links |-> NoLinks])

\* Path::new(path).parent().unwrap_or(".") for the config paths of the model
Path_parent(path) == IF path = "config.toml" THEN "" ELSE "."

\* Config::load on a config file [path, readable, parsed]
Config_load_file(cf) ==
  IF ~cf.readable THEN FileOperation(cf.path)
  ELSE IF cf.parsed.tag # "Ok" THEN ParseError("TOML", cf.path, cf.parsed.info)
  ELSE parse_config(cf.parsed.val, Path_parent(cf.path))

\* variant that looks every key up as "foo"
Config_get_linker_first(cfg, link_key) ==
  IF "foo" \in DOMAIN cfg.links THEN Ok(cfg.links["foo"])
  ELSE KeyNotFound(link_key, "config")

\* Config::get_linker
Config_get_linker(cfg, link_key) ==
  IF link_key \in DOMAIN cfg.links THEN Ok(cfg.links[link_key])
  ELSE KeyNotFound(link_key, "config")

(***************************************************************************)
(* Config inputs: the four well-formed accessor tables, every table that   *)
(* lacks one field of one of them, tables with an unknown or non-string    *)
(* kind, links that lack a or b, and a link that is no table.              *)
(***************************************************************************)
\* a string that the model keeps as a name (kind, file_path), a string kept
\* as text (key_path, query), an integer and a table
V_str(x) == Node("String", [str |-> x])
V_text(x) == Node("String", [text |-> x])
V_int(n) == Node("Integer", [int |-> n])
V_table(f) == Node("Table", [tab |-> f])

V_cursor(line, column) == V_table([line |-> V_int(line), column |-> V_int(column)])

GoodAccTables ==
  { V_table([kind |-> V_str("toml"), file_path |-> V_str("doc.toml"),
             key_path |-> V_text(P_server_port)]),
    V_table([kind |-> V_str("yaml"), file_path |-> V_str("doc.yaml"),
             key_path |-> V_text(P_server_port)]),
    V_table([kind |-> V_str("query"), file_path |-> V_str("doc.toml"),
             query |-> V_text(Q_8080)]),
    V_table([kind |-> V_str("span"), file_path |-> V_str("lines.txt"),
             start |-> V_cursor(2, 3), end |-> V_cursor(2, 6)]) }

\* the table without the field f
DropField(t, f) == V_table([k \in DOMAIN Unwrap(t) \ {f} |-> Unwrap(t)[k]])

SpanTables == {t \in GoodAccTables : Unwrap(Field(t, "kind")) = "span"}

BadAccTables ==
  {DropField(t, f) : t \in GoodAccTables,
                     f \in {"kind", "file_path", "key_path", "query", "start", "end"}}
  \cup {V_table([Unwrap(t) EXCEPT ![c] = DropField(Field(t, c), f)]) :
          t \in SpanTables, c \in {"start", "end"}, f \in {"line", "column"}}
  \cup {V_table([Unwrap(t) EXCEPT !.kind = V_str("json")]) : t \in GoodAccTables}
  \cup {V_table([Unwrap(t) EXCEPT !.kind = V_int(1)]) : t \in GoodAccTables}
  \cup {V_int(7)}

AccTables == GoodAccTables \cup (BadAccTables \ GoodAccTables)

LinkValues ==
  {V_table([a |-> x, b |-> y]) : x \in AccTables, y \in AccTables}
  \cup {V_table([a |-> x]) : x \in GoodAccTables}
  \cup {V_table([b |-> y]) : y \in GoodAccTables}
  \cup {V_str("not a table")}

BarValues ==
  { V_table([a |-> x, b |-> x]) : x \in SpanTables }
  \cup {V_table([a |-> DropField(x, "end")]) : x \in SpanTables}
  \cup {V_str("not a table")}

ConfigValues ==
  {V_table([links |-> V_table([foo |-> l])]) : l \in LinkValues}
  \cup {V_table([links |-> V_table([foo |-> l, bar |-> m])]) :
          l \in LinkValues, m \in BarValues}
  \cup {V_table([links |-> V_int(0)]), V_table([title |-> V_str("none")])}

ConfigFiles ==
  {[path |-> "config.toml", readable |-> TRUE, parsed |-> Ok(v)] : v \in ConfigValues}
  \cup {[path |-> "config.toml", readable |-> TRUE,
         parsed |-> Err("TomlDe", [msg |-> "invalid TOML"])],
        [path |-> "nowhere.toml", readable |-> FALSE, parsed |-> None]}

LookupKeys == {"foo", "bar", "nope"}

\* variant of load that keeps the links parsed before the failing one
Config_load_partial ==
  /\ config.loaded = None
  /\ \E cf \in ConfigFiles :
        config' = [config EXCEPT !.value = cf,
                     !.loaded = IF cf.readable /\ cf.parsed.tag = "Ok"
                                   /\ Config_load_file(cf).tag # "Ok"
                                THEN Ok([links |-> NoLinks])
                                ELSE Config_load_file(cf)]
  /\ UNCHANGED <<worker, files, linker, pc, ra, rb, result, outA, outB, reads, calls>>

\* Config::load(path)
Config_load ==
  /\ config.loaded = None
  /\ \E cf \in ConfigFiles :
        config' = [config EXCEPT !.value = cf, !.loaded = Config_load_file(cf)]
  /\ UNCHANGED <<worker, files, linker, pc, ra, rb, result, outA, outB, reads, calls>>

\* config.get_linker(link_key)
Config_get_linker_call ==
  /\ config.loaded.tag = "Ok"
  /\ pc = "idle"
  /\ config.key = None
  /\ \E link_key \in LookupKeys :
        config' = [config EXCEPT !.key = Ok(link_key),
                                 !.got = Config_get_linker(config.loaded.val, link_key)]
  /\ UNCHANGED <<worker, files, linker, pc, ra, rb, result, outA, outB, reads, calls>>

\* config.check(link_key): self.get_linker(link_key)? and then the call
\* of linker.check() on the Linker found
Config_check_call ==
  /\ config.loaded.tag = "Ok"
  /\ pc = "idle"
  /\ \E link_key \in LookupKeys :
       LET got == Config_get_linker(config.loaded.val, link_key)
       IN /\ config' = [config EXCEPT !.key = Ok(link_key), !.got = got]
          /\ IF Try(got)
             THEN linker' = got.val /\ pc' = "readA" /\ result' = result
             ELSE linker' = linker /\ pc' = "done" /\ result' = Propagate(got)
  /\ UNCHANGED <<worker, files, ra, rb, outA, outB, reads, calls>>

NoLinker == [a |-> None, b |-> None]

InitConfig ==
  /\ InitCommon
  /\ linker = NoLinker

NextConfig ==
  \/ Config_load
  \/ Config_get_linker_call
  \/ Config_check_call
  \/ Linker_check_readA
  \/ Linker_check_readB

SpecConfig == InitConfig /\ [][NextConfig]_vars

(***************************************************************************)
(* Vocabulary of the properties.                                           *)
(***************************************************************************)
SameString(s, t) == Len(s) = Len(t) /\ \A i \in 1..Len(s) : s[i] = t[i]

IsErr(out, kind) == out.tag = "Err" /\ out.kind = kind

Done(out) == out # None

Sides == {"a", "b"}

OutOf(side) == IF side = "a" THEN outA ELSE outB

Readable(path) == files[path].readable

LineCount(path) == Len(Lines(files[path].text))

LineOf(path, l) == Lines(files[path].text)[l]

\* pieces joined with exactly one "\n" between neighbours, none at the end
RECURSIVE JoinNewline(_)
JoinNewline(pieces) ==
  IF Len(pieces) = 1 THEN pieces[1]
  ELSE pieces[1] \o <<"\n">> \o JoinNewline(Tail(pieces))

CheckReadsOf(side) ==
  {i \in 1..Len(reads) : reads[i].op = "check" /\ reads[i].side = side}

T_ne2 == <<"n", "e", " ", "2">>
T_ne2_line == <<"n", "e", " ", "2", "\n", "l", "i", "n", "e">>

(***************************************************************************)
(* C1..C10                                                                 *)
(***************************************************************************)
\* C1: when a.read() and b.read() both succeed, check returns Ok(true) if
\* the two strings are the same character for character and Ok(false)
\* otherwise; nothing is trimmed, folded or compared numerically.
C1_ExactEquality ==
  (pc = "done" /\ ra.tag = "Ok" /\ rb.tag = "Ok")
    => /\ result.tag = "Ok"
       /\ result.val <=> SameString(ra.val, rb.val)

\* a check of two strings that differ only by leading white space: false
C1_Witness ==
  /\ pc = "done" /\ ra.tag = "Ok" /\ rb.tag = "Ok"
  /\ ~SameString(ra.val, rb.val)
  /\ SameString(TrimStart(ra.val), TrimStart(rb.val))
  /\ result = Ok(FALSE)

\* C2: when a read inside check returns an error, check returns that very
\* error; a read that did not succeed never becomes Ok(true) or Ok(false).
C2_FailurePropagates ==
  /\ (pc = "done" /\ ra.tag # "Ok")
       => result.tag # "Ok" /\ (ra.tag = "Err" => result = ra)
  /\ (pc = "done" /\ Done(rb) /\ rb.tag # "Ok")
       => result.tag # "Ok" /\ (rb.tag = "Err" => result = rb)

\* b's read returned an error after a's succeeded, and check returned it
C2_Witness ==
  pc = "done" /\ ra.tag = "Ok" /\ rb.tag = "Err" /\ result = rb

\* C3: check reads a before b, and once a's read has not succeeded b is
\* never read by check and the outcome is a's.
C3_ShortCircuit ==
  /\ \A i \in CheckReadsOf("b") : \E j \in CheckReadsOf("a") : j < i
  /\ (Done(rb) \/ pc = "readB") => ra.tag = "Ok"
  /\ (Done(ra) /\ ra.tag # "Ok")
       => /\ CheckReadsOf("b") = {}
          /\ rb = None
          /\ pc = "done"
          /\ result = ra

\* a's read returned an error while b's file is readable: b was not read
C3_Witness ==
  /\ pc = "done" /\ ra.tag = "Err" /\ rb = None
  /\ Readable(linker.b.reader.file_path)
  /\ CheckReadsOf("a") # {} /\ CheckReadsOf("b") = {}

\* C4: read() and check() always end in a success or failure outcome value;
\* no input makes them panic.
C4_NoPanic ==
  /\ outA.tag # "Panic"
  /\ outB.tag # "Panic"
  /\ ra.tag # "Panic"
  /\ rb.tag # "Panic"
  /\ result.tag # "Panic"

\* C5: for each of the four reader kinds, read() on a file that cannot be
\* read fails with FileOperation carrying that path.
C5_UnreadableIsFileOperation ==
  \A side \in Sides :
    (Done(OutOf(side)) /\ ~Readable(linker[side].reader.file_path))
      => OutOf(side) = FileOperation(linker[side].reader.file_path)

\* C6: a span whose start.line or end.line exceeds the line count of the
\* file, or whose start.line exceeds end.line, always fails with a
\* KeyNotFound (out-of-range) error; it does not panic and returns no string.
C6_OutOfRangeFails ==
  LET r == linker.a.reader
  IN (/\ linker.a.variant = "Spans" /\ Done(outA) /\ Readable(r.file_path)
      /\ \/ r.start.line > LineCount(r.file_path)
         \/ r.end.line > LineCount(r.file_path)
         \/ r.start.line > r.end.line)
       => IsErr(outA, "KeyNotFound")

\* C7: a single-line span with 1 <= start.column <= end.column <= length of
\* the line returns exactly the characters of that line at the 1-based
\* positions start.column .. end.column; (2,3)-(2,6) of the four-line
\* example yields "ne 2".
C7_SingleLine ==
  LET r == linker.a.reader
  IN (/\ linker.a.variant = "Spans" /\ Done(outA) /\ Readable(r.file_path)
      /\ r.start.line = r.end.line
      /\ 1 <= r.start.line /\ r.start.line <= LineCount(r.file_path)
      /\ 1 <= r.start.column /\ r.start.column <= r.end.column
      /\ r.end.column <= Len(LineOf(r.file_path, r.start.line)))
       => /\ outA.tag = "Ok"
          /\ Len(outA.val) = r.end.column - r.start.column + 1
          /\ \A k \in 1..Len(outA.val) :
                outA.val[k] = LineOf(r.file_path, r.start.line)[r.start.column + k - 1]
          /\ (r = SpanAcc("lines.txt", 2, 3, 2, 6).reader => outA = Ok(T_ne2))

C7_Witness ==
  linker.a = SpanAcc("lines.txt", 2, 3, 2, 6) /\ outA = Ok(T_ne2)

\* C8: a multi-line span with both lines in the file and both columns within
\* their lines returns the first line from start.column on, every line
\* strictly between in full and in order, and the last line up to
\* end.column, joined by exactly one "\n" each and without a trailing
\* newline; (2,3)-(3,4) of the four-line example yields "ne 2\nline".
C8_MultiLine ==
  LET r == linker.a.reader
      f == r.file_path
      pieces == <<SubSeq(LineOf(f, r.start.line), r.start.column,
                         Len(LineOf(f, r.start.line)))>>
                \o [i \in 1..(r.end.line - r.start.line - 1) |-> LineOf(f, r.start.line + i)]
                \o <<SubSeq(LineOf(f, r.end.line), 1, r.end.column)>>
  IN (/\ linker.a.variant = "Spans" /\ Done(outA) /\ Readable(f)
      /\ 1 <= r.start.line /\ r.start.line < r.end.line
      /\ r.end.line <= LineCount(f)
      /\ 1 <= r.start.column /\ r.start.column <= Len(LineOf(f, r.start.line))
      /\ 1 <= r.end.column /\ r.end.column <= Len(LineOf(f, r.end.line)))
       => /\ outA.tag = "Ok"
          /\ SameString(outA.val, JoinNewline(pieces))
          /\ (r = SpanAcc("lines.txt", 2, 3, 3, 4).reader => outA = Ok(T_ne2_line))

\* a span with two full middle lines has been read
C8_Witness ==
  /\ linker.a.variant = "Spans" /\ outA.tag = "Ok"
  /\ linker.a.reader.file_path = "lines.txt"
  /\ linker.a.reader.start = Cursor(1, 3)
  /\ linker.a.reader.end = Cursor(4, 4)
  /\ Len(outA.val) = 4 + 1 + 6 + 1 + 6 + 1 + 4

\* C9: with arrays.numbers = [1,2,3,4,5], the path arrays.numbers[i] yields
\* the text of element i for 0 <= i < 5 and fails with KeyNotFound for
\* i >= 5, in the TOML reader and in the YAML reader alike.
C9_ArrayIndex ==
  \A i \in 0..MaxIndex :
    (/\ linker.a.reader.key_path = JoinDots(<<K_arrays, Bracket(K_numbers, IndexText(i))>>)
     /\ linker.a.reader.file_path = "doc.toml"
     /\ linker.a.variant = "Toml" /\ linker.b.variant = "Yaml")
      => \A side \in Sides :
            Done(OutOf(side)) =>
              IF i < 5 THEN OutOf(side) = Ok(NatToString(i + 1))
              ELSE IsErr(OutOf(side), "KeyNotFound")

\* both readers have answered for index 4 and for index 5
C9_Witness ==
  \/ /\ linker.a = TomlAcc("doc.toml", JoinDots(<<K_arrays, Bracket(K_numbers, <<"4">>)>>))
     /\ outA = Ok(<<"5">>) /\ outB = Ok(<<"5">>)
  \/ /\ linker.a = TomlAcc("doc.toml", JoinDots(<<K_arrays, Bracket(K_numbers, <<"5">>)>>))
     /\ IsErr(outA, "KeyNotFound") /\ IsErr(outB, "KeyNotFound")

\* C10: a key path that ends on a table/mapping or an array/sequence makes
\* read fail with KeyNotFound in both structured readers; read never returns
\* a placeholder string for a composite node.
C10_CompositeLeafFails ==
  (/\ linker.a.reader.key_path \in {K_server, K_arrays, JoinDots(<<K_arrays, K_numbers>>)}
   /\ linker.a.reader.file_path = "doc.toml"
   /\ linker.a.variant = "Toml" /\ linker.b.variant = "Yaml")
    => \A side \in Sides : Done(OutOf(side)) => IsErr(OutOf(side), "KeyNotFound")

(***************************************************************************)
(* C11..C20                                                                *)
(***************************************************************************)
KeyPathOf(side) == linker[side].reader.key_path

FileOf(side) == linker[side].reader.file_path

\* the text handed to the YAML parser: "---\n" is put in front of a text
\* that does not start with the document marker
Marked(text) ==
  IF StartsWith(TrimStart(text), <<"-", "-", "-">>) THEN text ELSE YamlMarker \o text

\* the file of that side is readable and valid for the format of its reader
ValidDoc(side) ==
  /\ Readable(FileOf(side))
  /\ IF linker[side].variant = "Toml"
     THEN TomlParse(files[FileOf(side)].text).tag = "Ok"
     ELSE YamlLoad(Marked(files[FileOf(side)].text)).tag = "Ok"

IsStructured(side) == linker[side].variant \in {"Toml", "Yaml"}

\* a segment that has "[" and does not end with "]"
HasMalformedSeg(key_path) ==
  \E i \in 1..Len(Split(key_path, ".")) :
     LET part == Split(key_path, ".")[i]
     IN Find(part, "[") # -1 /\ ~EndsWith(part, "]")

\* key absent; indexed key absent; indexed value no sequence; index out of
\* bounds; index text no non-negative integer.  On a document whose root is
\* no mapping each of them is the "node not a mapping" case.
MismatchPaths ==
  { K_nope,
    JoinDots(<<K_server, K_nope>>),
    Bracket(K_port, <<"0">>),
    JoinDots(<<K_server, Bracket(K_port, <<"0">>)>>),
    JoinDots(<<K_arrays, Bracket(K_numbers, <<"5">>)>>),
    JoinDots(<<K_arrays, Bracket(K_numbers, <<"x">>)>>),
    JoinDots(<<K_arrays, Bracket(K_numbers, <<>>)>>) }

\* C11: over a validly parsed document each navigation mismatch (key absent,
\* node not a mapping, indexed value not a sequence, index out of bounds,
\* index text not a non-negative integer) makes read fail with KeyNotFound
\* in both structured readers, never with Parse or ConfigError and never Ok.
C11_MismatchIsKeyNotFound ==
  \A side \in Sides :
    (/\ IsStructured(side) /\ Done(OutOf(side)) /\ ValidDoc(side)
     /\ KeyPathOf(side) \in MismatchPaths)
      => IsErr(OutOf(side), "KeyNotFound")

\* C12: a structured reader returns the Parse kind exactly when the content
\* of the file is not valid for its format, whatever the key path is.
C12_ParseIffMalformedFile ==
  \A side \in Sides :
    (IsStructured(side) /\ Done(OutOf(side)) /\ Readable(FileOf(side)))
      => (IsErr(OutOf(side), "Parse") <=> ~ValidDoc(side))

\* C13: a key path with a segment that has "[" but does not end with "]"
\* makes read fail with ConfigError, whatever the state of the file and
\* whether or not the earlier segments resolve.
C13_MalformedBracketIsConfigError ==
  \A side \in Sides :
    (IsStructured(side) /\ Done(OutOf(side)) /\ HasMalformedSeg(KeyPathOf(side)))
      => IsErr(OutOf(side), "ConfigError")

\* C14: for a readable file with text T and query q, read succeeds iff q
\* occurs as a contiguous piece of T, the value is exactly q, and when q
\* does not occur read fails with QueryNotFound naming query and file.
C14_QueryContainment ==
  (linker.a.variant = "Query" /\ Done(outA) /\ Readable(FileOf("a")))
    => IF \E i \in 1..(Len(files[FileOf("a")].text) + 1) :
             \E j \in (i - 1)..Len(files[FileOf("a")].text) :
                SameString(SubSeq(files[FileOf("a")].text, i, j), linker.a.reader.query)
       THEN outA = Ok(linker.a.reader.query)
       ELSE outA = Err("QueryNotFound", [query |-> linker.a.reader.query,
                                         file_path |-> FileOf("a")])

\* C15: the empty query always succeeds with the empty string, whatever the
\* content of the file, an empty file included.
C15_EmptyQuery ==
  (/\ linker.a.variant = "Query" /\ Done(outA) /\ Readable(FileOf("a"))
   /\ linker.a.reader.query = <<>>)
    => outA = Ok(<<>>)

\* the empty query has been read against the empty file
C15_Witness ==
  linker.a = QueryAcc("empty", <<>>) /\ outA = Ok(<<>>)

\* the side of the linker that holds the reader of the given variant
SideOf(variant) == IF linker.a.variant = variant THEN "a" ELSE "b"

\* the integers that occur as a port in some file
LeafValues == PortValues \cup {n + 1 : n \in PortValues}

\* the server documents: their leaves and their text in each format
ServerDocs ==
  {[h |-> h, n |-> n, d |-> d,
    Toml |-> ServerTomlText(h, n, d), Yaml |-> ServerYamlText(h, n, d)] :
      h \in HostNames, n \in LeafValues, d \in BOOLEAN}

\* both files are server documents with the same host, port and debug
EqualServerDocs ==
  \E doc \in ServerDocs :
     /\ files[FileOf(SideOf("Toml"))].text = doc.Toml
     /\ files[FileOf(SideOf("Yaml"))].text = doc.Yaml

SharedKeyPaths == {JoinDots(<<K_server, k>>) : k \in {K_host, K_port, K_debug}}

\* C16: a TOML reader and a YAML reader on the same key path (host, port or
\* debug) of two server documents with equal leaves read the same string,
\* and check on the pair, in either a/b assignment, returns Ok(true).
C16_CrossFormatEquality ==
  ( /\ {linker.a.variant, linker.b.variant} = {"Toml", "Yaml"}
    /\ KeyPathOf("a") = KeyPathOf("b")
    /\ KeyPathOf("a") \in SharedKeyPaths
    /\ EqualServerDocs )
  => /\ (Done(outA) /\ Done(outB))
          => (outA.tag = "Ok" /\ outB.tag = "Ok" /\ SameString(outA.val, outB.val))
     /\ pc = "done" => result = Ok(TRUE)

\* the YAML reader on side a and the TOML reader on side b, port -7: true
C16_Witness ==
  /\ linker.a.variant = "Yaml" /\ linker.b.variant = "Toml"
  /\ KeyPathOf("a") = P_server_port /\ KeyPathOf("b") = P_server_port
  /\ EqualServerDocs
  /\ pc = "done"
  /\ ra = Ok(<<"-", "7">>)
  /\ result = Ok(TRUE)

\* t is the minimal decimal text of n: "-" exactly when n < 0, then the
\* digits of |n| with no leading zero ("0" itself for zero)
MinimalDecimal(t, n) ==
  LET neg == Len(t) > 0 /\ t[1] = "-"
      body == IF neg THEN Tail(t) ELSE t
  IN /\ neg <=> n < 0
     /\ Len(body) >= 1
     /\ \A i \in 1..Len(body) : IsDigit(body[i])
     /\ Len(body) > 1 => body[1] # "0"
     /\ DigitsVal(body) = (IF n < 0 THEN 0 - n ELSE n)

\* the file of the side is the server document doc in the side's format
ServerDocOf(side, doc) == files[FileOf(side)].text = doc[linker[side].variant]

\* C17: a structured reader that resolved a scalar leaf returns the string
\* leaf unchanged, the integer leaf as its minimal decimal text, the boolean
\* leaf as "true" or "false" and the null leaf as "null", and nothing else.
C17_ScalarStringification ==
  \A side \in Sides :
    (IsStructured(side) /\ Done(OutOf(side))) =>
    \A doc \in ServerDocs :
      ServerDocOf(side, doc)
      => /\ KeyPathOf(side) = P_server_host => OutOf(side) = Ok(doc.h)
         /\ KeyPathOf(side) = P_server_port
              => (OutOf(side).tag = "Ok" /\ MinimalDecimal(OutOf(side).val, doc.n))
         /\ KeyPathOf(side) = JoinDots(<<K_server, K_debug>>)
              => OutOf(side) = Ok(IF doc.d THEN <<"t", "r", "u", "e">>
                                  ELSE <<"f", "a", "l", "s", "e">>)
         /\ (KeyPathOf(side) = JoinDots(<<K_server, K_extra>>)
               /\ linker[side].variant = "Yaml")
              => OutOf(side) = Ok(<<"n", "u", "l", "l">>)

\* the YAML reader on the null leaf `extra`
C17_Witness ==
  /\ linker.a.variant = "Yaml"
  /\ KeyPathOf("a") = JoinDots(<<K_server, K_extra>>)
  /\ \E doc \in ServerDocs : ServerDocOf("a", doc)
  /\ outA = Ok(<<"n", "u", "l", "l">>)

\* the read of the reader that the accessor holds, called on the reader itself
ReaderOutcome(acc) ==
  IF acc.variant = "Spans" THEN SpanReader_read(files, acc.reader)
  ELSE IF acc.variant = "Toml" THEN TomlReader_read(files, acc.reader)
  ELSE IF acc.variant = "Yaml" THEN YamlReader_read(files, acc.reader)
  ELSE QueryReader_read(files, acc.reader)

\* C18: Accessor.read, called directly or inside check, returns exactly the
\* outcome of the read of the reader of its own variant: the same string or
\* the same failure, never the outcome of a reader of another variant.
C18_DispatchUnchanged ==
  /\ \A side \in Sides :
        Done(OutOf(side)) => OutOf(side) = ReaderOutcome(linker[side])
  /\ Done(ra) => ra = ReaderOutcome(linker.a)
  /\ Done(rb) => rb = ReaderOutcome(linker.b)

\* a TOML accessor and a YAML accessor, each read directly and inside check
C18_Witness ==
  /\ linker.a = TomlAcc("doc.toml", P_server_port)
  /\ linker.b.variant = "Yaml"
  /\ outA = Ok(<<"8", "0", "8", "0">>)
  /\ Done(outB)
  /\ ra = outA
  /\ Done(rb)

\* the entries of `calls` for the operation op
CallsOf(op) == {i \in 1..Len(calls) : calls[i].op = op}

\* both succeed with the same value or both fail
SameVerdict(o1, o2) ==
  /\ o1.tag = "Ok" <=> o2.tag = "Ok"
  /\ o1.tag = "Ok" => o1.val = o2.val

\* C19: over the same files, check on the Linker and check on the Linker
\* with a and b exchanged give the same boolean, and one of them fails
\* exactly when the other fails (the failures themselves may differ).
C19_CheckSymmetric ==
  \A i \in CallsOf("check"), j \in CallsOf("check_swapped") :
     calls[i].fs = calls[j].fs => SameVerdict(calls[i].out, calls[j].out)

\* "localhost" against "8080": false in both orders
C19_Witness ==
  \E i \in CallsOf("check"), j \in CallsOf("check_swapped") :
     /\ calls[i].fs = calls[j].fs
     /\ linker.a = TomlAcc("doc.toml", P_server_host)
     /\ linker.b = YamlAcc("doc.yaml", P_server_port)
     /\ calls[i].out = Ok(FALSE)
     /\ calls[j].out = Ok(FALSE)

\* the same outcome: the same value, the same error kind or a panic
SameOutcome(o1, o2) ==
  /\ o1.tag = o2.tag
  /\ o1.tag = "Ok" => o1.val = o2.val
  /\ o1.tag = "Err" => o1.kind = o2.kind

C21_InterleavingIndependent ==
  /\ Done(ra) => ra = Accessor_read(files, linker.a)
  /\ Done(rb) => rb = Accessor_read(files, linker.b)
  /\ pc = "done" => result = Linker_check(files, linker)
  /\ Done(worker.ra) => worker.ra = Accessor_read(files, worker.linker.a)
  /\ Done(worker.rb) => worker.rb = Accessor_read(files, worker.linker.b)
  /\ worker.pc = "done" => worker.result = Linker_check(files, worker.linker)

\* the four reads alternate between the two checks, and the checks differ
C21_Witness ==
  /\ pc = "done" /\ worker.pc = "done"
  /\ Len(reads) = 4
  /\ reads[1].op = "check" /\ reads[2].op = "worker"
  /\ reads[3].op = "check" /\ reads[4].op = "worker"
  /\ result = Ok(TRUE)
  /\ worker.result = Ok(FALSE)

\* C22: no step of read or check, successful or failed, changes a field of
\* an accessor, the a and b of the Linker or the content of a file.
C22_ReadOnly == [][files' = files /\ linker' = linker]_vars

\* a failed check and a successful direct read have happened
C22_Witness ==
  /\ pc = "done" /\ result.tag = "Err"
  /\ outA.tag = "Ok" /\ Done(outB)
  /\ files = FileSystem

\* the value x is no table or has no entry f
Lacks(x, f) == x.t # "Table" \/ f \notin DOMAIN Unwrap(x)

\* the kinds and, for each, the fields that an accessor table must have
Kinds == {"toml", "span", "yaml", "query"}

RequiredOf(kind) ==
  CASE kind \in {"toml", "yaml"} -> {"file_path", "key_path"}
    [] kind = "query" -> {"file_path", "query"}
    [] kind = "span" -> {"file_path", "start", "end"}

\* the accessor table lacks its kind, names an unknown kind or lacks a
\* field that its kind requires
AccDefective(x) ==
  \/ Lacks(x, "kind")
  \/ /\ Field(x, "kind").t = "String"
     /\ \/ Unwrap(Field(x, "kind")) \notin Kinds
        \/ /\ Unwrap(Field(x, "kind")) \in Kinds
           /\ \/ \E f \in RequiredOf(Unwrap(Field(x, "kind"))) : Lacks(x, f)
              \/ /\ Unwrap(Field(x, "kind")) = "span"
                 /\ \E c \in {"start", "end"}, f \in {"line", "column"} :
                       ~Lacks(x, c) /\ Lacks(Field(x, c), f)

\* the link table lacks a or b, or one of the two is defective
LinkDefective(l) ==
  \/ Lacks(l, "a")
  \/ Lacks(l, "b")
  \/ AccDefective(Field(l, "a"))
  \/ AccDefective(Field(l, "b"))

\* the link tables of the parsed config file
LinkTablesOf(value) ==
  IF Lacks(value, "links") \/ Field(value, "links").t # "Table" THEN {}
  ELSE {Field(Field(value, "links"), k) : k \in DOMAIN Unwrap(Field(value, "links"))}

\* the config file was read and parsed, and the value is its content
ParsedValue == config.value.readable /\ config.value.parsed.tag = "Ok"

\* C23: when some link table of the config file is defective (lacks a or b,
\* lacks kind, names an unknown kind or lacks a field of its kind), load
\* returns an error and no Config, whatever the other links are.
C23_LoadAllOrNothing ==
  (Done(config.loaded) /\ ParsedValue)
    => ((\E l \in LinkTablesOf(config.value.parsed.val) :
            l.t = "Table" /\ LinkDefective(l))
         => config.loaded.tag = "Err")

\* link bar is well-formed and link foo lacks b: load fails
C23_Witness ==
  /\ Done(config.loaded) /\ ParsedValue
  /\ \E x \in SpanTables, y \in GoodAccTables :
        config.value.parsed.val =
          V_table([links |-> V_table([foo |-> V_table([a |-> y]),
                                       bar |-> V_table([a |-> x, b |-> x])])])
  /\ IsErr(config.loaded, "ConfigError")

\* C24: get_linker(k) returns the Linker stored under k when k is a key of
\* links and KeyNotFound otherwise; check(k) returns what the check of that
\* Linker returns, and for an absent k the lookup error, no file being read.
C24_LookupThenCheck ==
  Done(config.got) =>
    /\ config.key.val \in DOMAIN config.loaded.val.links
         => config.got = Ok(config.loaded.val.links[config.key.val])
    /\ config.key.val \notin DOMAIN config.loaded.val.links
         => /\ IsErr(config.got, "KeyNotFound")
            /\ config.got.info.key_path = config.key.val
    /\ (pc = "done" /\ Try(config.got))
         => result = Linker_check(files, config.got.val)
    /\ (pc = "done" /\ ~Try(config.got))
         => (result = config.got /\ reads = <<>>)

\* check("nope") on a Config that holds the link foo
C24_Witness ==
  /\ config.key = Ok("nope")
  /\ "foo" \in DOMAIN config.loaded.val.links
  /\ pc = "done"
  /\ IsErr(result, "KeyNotFound")
  /\ reads = <<>>

\* both lines of the span exist in the file and are in order
SpanLinesValid(r) ==
  /\ Readable(r.file_path)
  /\ 1 <= r.start.line /\ r.start.line <= r.end.line
  /\ r.end.line <= LineCount(r.file_path)

\* C25: a single-line span on a valid line with start.column > end.column
\* makes read fail with an error, for every such pair of columns: it does
\* not panic and returns no string, not even the empty one when
\* start.column = end.column + 1.
C25_ReversedColumnsFail ==
  LET r == linker.a.reader
  IN (/\ linker.a.variant = "Spans" /\ Done(outA) /\ SpanLinesValid(r)
      /\ r.start.line = r.end.line
      /\ r.start.column > r.end.column)
       => outA.tag = "Err"

\* C26: a span with 0 in start.line, end.line, start.column or end.column
\* makes read fail with an error, single-line or multi-line; it never
\* returns a string and never panics.
C26_ZeroRejected ==
  LET r == linker.a.reader
  IN (/\ linker.a.variant = "Spans" /\ Done(outA) /\ Readable(r.file_path)
      /\ \/ r.start.line = 0 \/ r.end.line = 0
         \/ r.start.column = 0 \/ r.end.column = 0)
       => outA.tag = "Err"

\* C27: a multi-line span on valid lines, with 1-based columns of which at
\* least one lies past the end of its line, is read successfully: an
\* end.column past the last line takes the whole last line, a start.column
\* past the first line takes nothing of the first line, and the pieces
\* (the empty first piece included) are joined by "\n" as in the normal
\* case.
C27_ClampedColumns ==
  LET r == linker.a.reader
      f == r.file_path
      first_line == LineOf(f, r.start.line)
      last_line == LineOf(f, r.end.line)
      pieces == <<IF r.start.column > Len(first_line) THEN <<>>
                  ELSE SubSeq(first_line, r.start.column, Len(first_line))>>
                \o [i \in 1..(r.end.line - r.start.line - 1) |-> LineOf(f, r.start.line + i)]
                \o <<IF r.end.column > Len(last_line) THEN last_line
                     ELSE SubSeq(last_line, 1, r.end.column)>>
  IN (/\ linker.a.variant = "Spans" /\ Done(outA) /\ SpanLinesValid(r)
      /\ r.start.line < r.end.line
      /\ 1 <= r.start.column /\ 1 <= r.end.column
      /\ \/ r.start.column > Len(first_line)
         \/ r.end.column > Len(last_line))
       => /\ outA.tag = "Ok"
          /\ SameString(outA.val, JoinNewline(pieces))

\* both columns of (2,7)-(4,7) lie past the six characters of their lines
C27_Witness ==
  /\ linker.a = SpanAcc("lines.txt", 2, 7, 4, 7)
  /\ outA.tag = "Ok"
  /\ Len(outA.val) = 0 + 1 + 6 + 1 + 6

\* number of newline characters of a text
Newlines(text) == Cardinality({k \in 1..Len(text) : text[k] = "\n"})

\* C30: a string returned for a span with valid lines contains exactly
\* end.line - start.line newline characters, and for a single-line span
\* its length is exactly end.column - start.column + 1.
C30_OutputShape ==
  LET r == linker.a.reader
  IN (/\ linker.a.variant = "Spans" /\ Done(outA) /\ outA.tag = "Ok"
      /\ SpanLinesValid(r))
       => /\ Newlines(outA.val) = r.end.line - r.start.line
          /\ (r.start.line = r.end.line
                => Len(outA.val) = r.end.column - r.start.column + 1)

\* a three-line span of the TOML fixture has been returned
C30_Witness ==
  /\ linker.a.variant = "Spans" /\ outA.tag = "Ok"
  /\ linker.a.reader.file_path = "doc.toml"
  /\ linker.a.reader.start = Cursor(1, 2)
  /\ linker.a.reader.end = Cursor(3, 3)
  /\ Newlines(outA.val) = 2

\* the dotted paths accumulated over the first 1, 2, ... segments
AccumulatedPaths(key_path) ==
  LET parts == Split(key_path, ".")
  IN {JoinDots(SubSeq(parts, 1, n)) : n \in 1..Len(parts)}

\* the text ends with the given text
HasSuffix(text, suffix) ==
  /\ Len(text) >= Len(suffix)
  /\ SameString(SubSeq(text, Len(text) - Len(suffix) + 1, Len(text)), suffix)

\* a KeyNotFound raised by the walk over the segments, not by the final
\* match on a table or an array
RaisedWhileWalking(out) ==
  /\ IsErr(out, "KeyNotFound")
  /\ ~HasSuffix(out.info.key_path, Suffix_array)
  /\ ~HasSuffix(out.info.key_path, Suffix_table)

\* C28: a KeyNotFound raised while a structured reader walks a key path
\* carries the dotted path accumulated from the first segment up to and
\* including the failing one, for plain-key and bracket-index segments and
\* in both readers (a failure at the second segment of arrays.numbers[5]
\* reports arrays.numbers[5], not numbers or numbers[5]).
C28_AccumulatedPath ==
  \A side \in Sides :
    (IsStructured(side) /\ Done(OutOf(side)) /\ RaisedWhileWalking(OutOf(side)))
      => OutOf(side).info.key_path \in AccumulatedPaths(KeyPathOf(side))

\* C29: over a TOML document and a YAML document that encode the same
\* tree, the TomlReader and the YamlReader given the same key path have the
\* same outcome: both return the same string or both fail with the same
\* error kind.
C29_SameNavigator ==
  (/\ linker.a.variant = "Toml" /\ FileOf("a") = "doc.toml"
   /\ linker.b.variant = "Yaml" /\ FileOf("b") = "doc.yaml"
   /\ KeyPathOf("a") = KeyPathOf("b")
   /\ Done(outA) /\ Done(outB))
    => SameOutcome(outA, outB)

====
